---- MODULE Spec2Model ----
(***************************************************************************)
(* Model of the aspect post-processing pipeline of AspectExtractor         *)
(* (src/extractor.py): span decoding, bracket balancing, detokenization,   *)
(* inflection and normalization.                                           *)
(*                                                                         *)
(* Python strings are modelled as sequences of one-character strings, so   *)
(* that substring tests (`in` on a str), str.split, str.startswith and     *)
(* concatenation are computed as Python computes them.                     *)
(***************************************************************************)
EXTENDS Integers, Sequences, FiniteSets, TLC

VARIABLES
  pc,                 \* position of the running operation
  text,               \* token list handed to balance_parentheses / detokenize
  left_stack,         \* balance_parentheses: unmatched opens after the scan
  right_stack,        \* balance_parentheses: unmatched closes after the scan
  input0,             \* the token list as it was before the first balancing
  balanced1,          \* the token list after the first balancing
  idx,                \* detokenize / normalize: number of tokens consumed
  detokenized_text,   \* detokenize: list of emitted pieces
  sep,                \* detokenize: the next-separator flag
  detok_out,          \* detokenize: the joined string
  result,             \* extract_aspects: predictor output, <<token, label>> pairs
  i,                  \* extract_aspects: number of pairs consumed
  extracted_aspects,  \* extract_aspects: aspect -> list of spans (token positions)
  aspect_order,       \* extract_aspects: insertion order of the dict keys
  mentions,           \* extract_aspects: aspect -> list of processed strings
  parses,             \* inflect: morph.parse(token)
  pos,                \* inflect: requested part-of-speech prefixes
  grammemes,          \* inflect: requested grammemes
  parse,              \* inflect: index of the parse that is inflected
  inflected,          \* inflect: returned word
  doc,                \* normalize: dependency annotation of the span
  normalized_text     \* normalize: list of output tokens

vars == <<pc, text, left_stack, right_stack, input0, balanced1, idx,
          detokenized_text, sep, detok_out, result, i, extracted_aspects,
          aspect_order, mentions, parses, pos, grammemes, parse, inflected,
          doc, normalized_text>>

balVars == <<text, left_stack, right_stack, input0, balanced1>>
detVars == <<idx, detokenized_text, sep, detok_out>>
decVars == <<result, i, extracted_aspects, aspect_order, mentions>>
infVars == <<parses, pos, grammemes, parse, inflected>>
nrmVars == <<doc, normalized_text>>

----------------------------------------------------------------------------
(* Bounds *)

MaxLen == 4        \* longest token list given to the balancer / detokenizer
MaxTokens == 3     \* longest labelled sequence returned by the predictor
MaxCats == 2       \* most categories joined in one label
MaxParses == 3     \* most candidate parses the analyzer returns for a word
MaxSpan == 2       \* longest span given to normalize

----------------------------------------------------------------------------
(* Python string and list primitives *)

\* all sequences over S of length lo..hi
SeqsUpTo(S, lo, hi) == UNION { [1..n -> S] : n \in lo..hi }

\* x in lst (list membership)
InList(x, lst) == \E k \in 1..Len(lst) : lst[k] = x

\* sub in s, for two str values (substring test)
InStr(sub, s) ==
  \E a \in 0..Len(s) : a + Len(sub) <= Len(s) /\ SubSeq(s, a + 1, a + Len(sub)) = sub

\* s.startswith(prefix)
StartsWith(s, prefix) ==
  Len(prefix) <= Len(s) /\ SubSeq(s, 1, Len(prefix)) = prefix

\* index of the first occurrence of x in lst (lst.index(x)); 0 if absent
RECURSIVE IndexOf(_, _, _)
IndexOf(x, lst, k) ==
  IF k > Len(lst) THEN 0
  ELSE IF lst[k] = x THEN k ELSE IndexOf(x, lst, k + 1)

\* lst.remove(x): drops the first occurrence of x
ListRemove(lst, x) ==
  LET k == IndexOf(x, lst, 1)
  IN  SubSeq(lst, 1, k - 1) \o SubSeq(lst, k + 1, Len(lst))

\* lst.insert(0, x)
InsertFront(lst, x) == <<x>> \o lst

\* ''.join(pieces)
RECURSIVE JoinStr(_)
JoinStr(pieces) ==
  IF pieces = <<>> THEN <<>> ELSE Head(pieces) \o JoinStr(Tail(pieces))

\* number of occurrences of x in lst
RECURSIVE Count(_, _)
Count(x, lst) ==
  IF lst = <<>> THEN 0
  ELSE (IF Head(lst) = x THEN 1 ELSE 0) + Count(x, Tail(lst))

----------------------------------------------------------------------------
(* AspectExtractor.__init__: punctuation tables *)

LPAR == <<"(">>
RPAR == <<")">>
LSQ == <<"[">>
RSQ == <<"]">>
LGUIL == <<"«">>
RGUIL == <<"»">>
LBRACE == <<"{">>
RBRACE == <<"}">>
QUOTE == <<"\"">>

\* the keys of PAIRED_L2R, in dict order
LeftBrackets == <<LPAR, LSQ, LGUIL, LBRACE>>
RightBrackets == <<RPAR, RSQ, RGUIL, RBRACE>>

InL2R(token) == InList(token, LeftBrackets)
InR2L(token) == InList(token, RightBrackets)

\* PAIRED_L2R.get(p, p)
PAIRED_L2R(p) == IF InL2R(p) THEN RightBrackets[IndexOf(p, LeftBrackets, 1)] ELSE p
\* PAIRED_R2L.get(p, p)
PAIRED_R2L(p) == IF InR2L(p) THEN LeftBrackets[IndexOf(p, RightBrackets, 1)] ELSE p

UNPAIRED_PUNCT == <<".", ",", ":", ";", "!", "?", "%", "^">>
SYMM_QUOTES == <<QUOTE>>

----------------------------------------------------------------------------
(* AspectExtractor.balance_parentheses *)

\* the scanning loop's body with strict top-of-stack matching (mutant)
ScanTokenStrict(st, token) ==
  LET top == IF st.left = <<>> THEN <<>> ELSE Head(st.left)
  IN  IF InList(token, SYMM_QUOTES) /\ top = token
        THEN [st EXCEPT !.left = Tail(st.left)]
      ELSE IF InL2R(token) \/ InList(token, SYMM_QUOTES)
        THEN [st EXCEPT !.left = InsertFront(st.left, token)]
      ELSE IF InR2L(token) /\ top = PAIRED_R2L(token)
        THEN [st EXCEPT !.left = Tail(st.left)]
      ELSE IF InR2L(token)
        THEN [st EXCEPT !.right = InsertFront(st.right, token)]
      ELSE st

\* one iteration of the scanning loop; st = [left |-> ..., right |-> ...]
ScanToken(st, token) ==
  IF InList(token, SYMM_QUOTES) /\ InList(token, st.left)
    THEN [st EXCEPT !.left = ListRemove(st.left, token)]
  ELSE IF InL2R(token) \/ InList(token, SYMM_QUOTES)
    THEN [st EXCEPT !.left = InsertFront(st.left, token)]
  ELSE IF InR2L(token) /\ InList(PAIRED_R2L(token), st.left)
    THEN [st EXCEPT !.left = ListRemove(st.left, PAIRED_R2L(token))]
  ELSE IF InR2L(token) /\ ~InList(PAIRED_R2L(token), st.left)
    THEN [st EXCEPT !.right = InsertFront(st.right, token)]
  ELSE st

\* the scanning loop over the first n tokens
RECURSIVE ScanStacks(_, _)
ScanStacks(toks, n) ==
  IF n = 0 THEN [left |-> <<>>, right |-> <<>>]
  ELSE ScanToken(ScanStacks(toks, n - 1), toks[n])

\* for p in right_stack: text.insert(0, PAIRED_R2L.get(p, p))
RECURSIVE PrependLefts(_, _)
PrependLefts(toks, rstack) ==
  IF rstack = <<>> THEN toks
  ELSE PrependLefts(InsertFront(toks, PAIRED_R2L(Head(rstack))), Tail(rstack))

\* for p in left_stack: text.append(PAIRED_L2R.get(p, p)), in push order (mutant)
RECURSIVE AppendRightsPushOrder(_, _)
AppendRightsPushOrder(toks, lstack) ==
  IF lstack = <<>> THEN toks
  ELSE AppendRightsPushOrder(Append(toks, PAIRED_L2R(lstack[Len(lstack)])),
                             SubSeq(lstack, 1, Len(lstack) - 1))

\* for p in left_stack: text.append(p), the glyph itself (mutant)
RECURSIVE AppendSameGlyph(_, _)
AppendSameGlyph(toks, lstack) ==
  IF lstack = <<>> THEN toks
  ELSE AppendSameGlyph(Append(toks, Head(lstack)), Tail(lstack))

\* for p in left_stack: text.append(PAIRED_L2R.get(p, p))
RECURSIVE AppendRights(_, _)
AppendRights(toks, lstack) ==
  IF lstack = <<>> THEN toks
  ELSE AppendRights(Append(toks, PAIRED_L2R(Head(lstack))), Tail(lstack))

balance_parentheses(toks) ==
  LET st == ScanStacks(toks, Len(toks))
  IN  AppendRights(PrependLefts(toks, st.right), st.left)

----------------------------------------------------------------------------
(* AspectExtractor.detokenize *)

SPACE == <<" ">>

\* the loop body that forgets the right brackets (mutant)
DetokTokenPunctOnly(st, token) ==
  IF InStr(token, UNPAIRED_PUNCT)
    THEN [st EXCEPT !.pieces = Append(st.pieces, token)]
    ELSE [pieces |-> Append(st.pieces, st.sep \o token),
          sep |-> IF InL2R(token) THEN <<>> ELSE SPACE]

\* one iteration of the loop; st = [pieces |-> detokenized_text, sep |-> sep]
DetokToken(st, token) ==
  IF InStr(token, UNPAIRED_PUNCT) \/ InR2L(token)
    THEN [st EXCEPT !.pieces = Append(st.pieces, token)]
    ELSE [pieces |-> Append(st.pieces, st.sep \o token),
          sep |-> IF InL2R(token) THEN <<>> ELSE SPACE]

RECURSIVE DetokLoop(_, _)
DetokLoop(toks, n) ==
  IF n = 0 THEN [pieces |-> <<>>, sep |-> <<>>]
  ELSE DetokToken(DetokLoop(toks, n - 1), toks[n])

detokenize(toks) == JoinStr(DetokLoop(toks, Len(toks)).pieces)

----------------------------------------------------------------------------
(* AspectExtractor.process, with the extractor built with normalize=False *)

\* str.upper() of one character
Upper(c) ==
  CASE c = "a" -> "A"
    [] c = "b" -> "B"
    [] c = "c" -> "C"
    [] OTHER -> c

\* text[0].upper() + text[1:]
Capitalize(str) == <<Upper(Head(str))>> \o Tail(str)

process(toks) == Capitalize(detokenize(balance_parentheses(toks)))

----------------------------------------------------------------------------
(* utils.ASPECTS_LIST and the label wire format *)

Task == <<"T", "a", "s", "k">>
Contrib == <<"C", "o", "n", "t", "r", "i", "b">>
Method == <<"M", "e", "t", "h", "o", "d">>
Conc == <<"C", "o", "n", "c">>
ASPECTS_LIST == <<Task, Contrib, Method, Conc>>

BAR == "|"
NoAspect == <<"O">>

\* s.split('|')
RECURSIVE Split(_)
Split(str) ==
  IF \E k \in 1..Len(str) : str[k] = BAR
    THEN LET k == CHOOSE k \in 1..Len(str) :
                    str[k] = BAR /\ \A j \in 1..k - 1 : str[j] # BAR
         IN  <<SubSeq(str, 1, k - 1)>> \o Split(SubSeq(str, k + 1, Len(str)))
    ELSE <<str>>

\* '|'.join(ids), the label the predictor emits for a list of categories
RECURSIVE JoinBar(_)
JoinBar(ids) ==
  IF Len(ids) = 1 THEN Head(ids)
  ELSE Head(ids) \o <<BAR>> \o JoinBar(Tail(ids))

----------------------------------------------------------------------------
(* AspectExtractor.extract_aspects *)

\* extracted_aspects is a defaultdict(list): a function on the keys created so
\* far.  A span holds the positions k of its tokens; position k stands for the
\* token object result[k][0] the Python list refers to.
DictGet(ea, key) == IF key \in DOMAIN ea THEN ea[key] ELSE <<>>
DictSet(ea, key, val) ==
  [k \in DOMAIN ea \cup {key} |-> IF k = key THEN val ELSE ea[k]]

\* the continuation test compares the whole labels (mutant)
ContinuesEq(aspect, prev_label) == aspect = prev_label

\* `aspect in prev_label`: prev_label is the undecoded label string
Continues(aspect, prev_label) == InStr(aspect, prev_label)

\* the token goes to the first span of the aspect (mutant)
DecodeAspectFirstSpan(st, aspect, prev_label, k) ==
  IF st.err THEN st
  ELSE
    LET known == aspect \in DOMAIN st.ea
        opened == IF ~Continues(aspect, prev_label)
                    THEN Append(DictGet(st.ea, aspect), <<>>)
                    ELSE DictGet(st.ea, aspect)
        order1 == IF known THEN st.order ELSE Append(st.order, aspect)
    IN  IF opened = <<>>
          THEN [ea |-> DictSet(st.ea, aspect, opened), order |-> order1,
                err |-> TRUE]
          ELSE [ea |-> DictSet(st.ea, aspect,
                               [opened EXCEPT ![1] = Append(@, k)]),
                order |-> order1, err |-> FALSE]

\* the body of `for aspect in aspects_for_token`, for the token at position k;
\* st = [ea |-> extracted_aspects, order |-> key order, err |-> IndexError raised]
DecodeAspect(st, aspect, prev_label, k) ==
  IF st.err THEN st
  ELSE
    LET known == aspect \in DOMAIN st.ea
        opened == IF ~Continues(aspect, prev_label)
                    THEN Append(DictGet(st.ea, aspect), <<>>)
                    ELSE DictGet(st.ea, aspect)
        order1 == IF known THEN st.order ELSE Append(st.order, aspect)
    IN  IF opened = <<>>
          \* extracted_aspects[aspect][-1] on the list the defaultdict just made
          THEN [ea |-> DictSet(st.ea, aspect, opened), order |-> order1,
                err |-> TRUE]
          ELSE [ea |-> DictSet(st.ea, aspect,
                               [opened EXCEPT ![Len(opened)] = Append(@, k)]),
                order |-> order1, err |-> FALSE]

RECURSIVE DecodeAspects(_, _, _, _)
DecodeAspects(st, aspects, prev_label, k) ==
  IF aspects = <<>> THEN st
  ELSE DecodeAspects(DecodeAspect(st, Head(aspects), prev_label, k),
                     Tail(aspects), prev_label, k)

\* aspects_for_token
AspectsForToken(cur_label) ==
  IF InList(NoAspect, Split(cur_label)) THEN <<>> ELSE Split(cur_label)

\* one iteration of `for i, (cur_token, cur_label) in enumerate(result)`,
\* for the pair at (1-based) position k
DecodeToken(st, res, k) ==
  LET prev_label == IF k = 1 THEN <<>> ELSE res[k - 1][2]
  IN  DecodeAspects(st, AspectsForToken(res[k][2]), prev_label, k)

\* the whole loop over the first n pairs
RECURSIVE DecodeLoop(_, _)
DecodeLoop(res, n) ==
  IF n = 0 THEN [ea |-> <<>>, order |-> <<>>, err |-> FALSE]
  ELSE DecodeToken(DecodeLoop(res, n - 1), res, n)

\* the tokens of a span
SpanTokens(res, span) == [k \in 1..Len(span) |-> res[span[k]][1]]

\* {aspect: [self.process(mention) for mention in mentions] for ...}
ProcessAll(res, ea) ==
  [a \in DOMAIN ea |->
     [m \in 1..Len(ea[a]) |-> process(SpanTokens(res, ea[a][m]))]]

----------------------------------------------------------------------------
(* AspectExtractor.inflect *)

\* part-of-speech tags of the analyzer and the prefixes normalize asks for;
\* NoPOS is the tag.POS of a parse without part of speech (None)
NOUN == <<"N", "O", "U", "N">>
ADJF == <<"A", "D", "J", "F">>
PRTF == <<"P", "R", "T", "F">>
VERB == <<"V", "E", "R", "B">>
NoPOS == <<>>
ADJ == <<"A", "D", "J">>
PRT == <<"P", "R", "T">>

\* the word of a form: the parse it was inflected from and its grammemes.
\* A candidate parse is [POS |-> tag, ok |-> whether parse.inflect finds a form].
GrammemeOrder == <<"nomn", "gent", "femn", "masc", "neut", "plur", "sing">>
Word(k, grams) ==
  <<"form", ToString(k)>> \o SelectSeq(GrammemeOrder, LAMBDA g : g \in grams)

\* any(parse.tag.POS.startswith(prefix) for prefix in pos if parse.tag.POS)
PosMatches(p, prefixes) ==
  \E k \in 1..Len(prefixes) : p.POS # NoPOS /\ StartsWith(p.POS, prefixes[k])

\* the parse that is inflected, had the loop kept parses[0] when nothing
\* matches (mutant)
SelectParseFirstDefault(prs, prefixes) ==
  IF \E k \in 1..Len(prs) : PosMatches(prs[k], prefixes)
    THEN CHOOSE k \in 1..Len(prs) :
           /\ PosMatches(prs[k], prefixes)
           /\ \A j \in 1..k - 1 : ~PosMatches(prs[j], prefixes)
    ELSE 1

\* the index of the parse that is inflected: `for parse in parses` rebinds
\* parse on every iteration, so without a break it ends on the last candidate
SelectParse(prs, prefixes) ==
  IF \E k \in 1..Len(prs) : PosMatches(prs[k], prefixes)
    THEN CHOOSE k \in 1..Len(prs) :
           /\ PosMatches(prs[k], prefixes)
           /\ \A j \in 1..k - 1 : ~PosMatches(prs[j], prefixes)
    ELSE Len(prs)

\* inflect(token, pos, grammemes), prs being morph.parse(token)
inflect(token, prs, prefixes, grams) ==
  LET k == SelectParse(prs, prefixes)
  IN  IF prs[k].ok THEN Word(k, grams) ELSE token

----------------------------------------------------------------------------
(* AspectExtractor.get_noun_grammemes and AspectExtractor.normalize *)

\* GRAMMEME_MAPPING.get(key, default)
GRAMMEME_MAPPING(key, default) ==
  CASE key = "Fem" -> "femn"
    [] key = "Masc" -> "masc"
    [] key = "Neut" -> "neut"
    [] key = "Plur" -> "plur"
    [] key = "Sing" -> "sing"
    [] OTHER -> default

NOUN_DEP == <<"appos", "acl", "amod", "det", "clf", "nummod">>

\* a parsed token is [text, dep_, head, pos_, Number, Gender, morph]: head is
\* the position of its head (its own position for a root), Number and Gender
\* are ''.join(token.morph.get(..)), morph is morph.parse(text)
get_noun_grammemes(token) ==
  LET number == GRAMMEME_MAPPING(token.Number, "sing")
      gender == GRAMMEME_MAPPING(token.Gender, "masc")
  IN  IF number = "plur" THEN {number} ELSE {gender}

\* doc[::].root: the first token that is its own head
RootOf(d) == CHOOSE k \in 1..Len(d) :
               d[k].head = k /\ \A j \in 1..k - 1 : d[j].head # j

\* token.children
Children(d, k) == { c \in 1..Len(d) : c # k /\ d[c].head = k }

NUMMOD == <<"n", "u", "m", "m", "o", "d">>
DepStr(dep) ==
  CASE dep = "nummod" -> NUMMOD
    [] dep = "nummod:gov" -> NUMMOD \o <<":", "g", "o", "v">>
    [] dep = "amod" -> <<"a", "m", "o", "d">>
    [] dep = "nmod" -> <<"n", "m", "o", "d">>
    [] OTHER -> <<"R", "O", "O", "T">>

\* the loop body with the root tested before the numeral-governed noun (mutant)
NormalizeTokenRootFirst(d, k) ==
  LET token == d[k]
      root == RootOf(d)
  IN  IF token.dep_ = "nummod"
        THEN inflect(token.text, token.morph, <<>>, {"nomn"})
      ELSE IF k = root
        THEN inflect(token.text, token.morph, <<NOUN>>, {"nomn"})
      ELSE IF \E c \in Children(d, k) : StartsWith(DepStr(d[c].dep_), NUMMOD)
        THEN inflect(token.text, token.morph, <<NOUN>>, {"gent"})
      ELSE IF token.head = root /\ InList(token.dep_, NOUN_DEP)
        THEN inflect(token.text, token.morph, <<ADJ, PRT>>,
                     {"nomn"} \cup get_noun_grammemes(d[root]))
      ELSE token.text

\* the body of `for token in doc[::]`: the output token for position k
NormalizeToken(d, k) ==
  LET token == d[k]
      root == RootOf(d)
  IN  IF token.dep_ = "nummod"
        THEN inflect(token.text, token.morph, <<>>, {"nomn"})
      ELSE IF \E c \in Children(d, k) : StartsWith(DepStr(d[c].dep_), NUMMOD)
        THEN inflect(token.text, token.morph, <<NOUN>>, {"gent"})
      ELSE IF k = root
        THEN inflect(token.text, token.morph, <<NOUN>>, {"nomn"})
      ELSE IF token.head = root /\ InList(token.dep_, NOUN_DEP)
        THEN inflect(token.text, token.morph, <<ADJ, PRT>>,
                     {"nomn"} \cup get_noun_grammemes(d[root]))
      ELSE token.text

\* tokens the balancer is exercised with
BalTokens == { <<"a">>, LPAR, RPAR, LSQ, RSQ, QUOTE }

BalIdle ==
  /\ text = <<>> /\ left_stack = <<>> /\ right_stack = <<>>
  /\ input0 = <<>> /\ balanced1 = <<>>
DetIdle == idx = 0 /\ detokenized_text = <<>> /\ sep = <<>> /\ detok_out = <<>>
DecIdle ==
  /\ result = <<>> /\ i = 0 /\ extracted_aspects = <<>>
  /\ aspect_order = <<>> /\ mentions = <<>>
InfIdle ==
  /\ parses = <<>> /\ pos = <<>> /\ grammemes = {} /\ parse = 0
  /\ inflected = <<>>
NrmIdle == doc = <<>> /\ normalized_text = <<>>

InitBalance ==
  /\ pc = "bal_start"
  /\ text \in SeqsUpTo(BalTokens, 0, MaxLen)
  /\ input0 = text
  /\ left_stack = <<>> /\ right_stack = <<>> /\ balanced1 = <<>>
  /\ DetIdle /\ DecIdle /\ InfIdle /\ NrmIdle

\* text = balance_parentheses(text), first call
Balance ==
  /\ pc = "bal_start"
  /\ left_stack' = ScanStacks(text, Len(text)).left
  /\ right_stack' = ScanStacks(text, Len(text)).right
  /\ text' = balance_parentheses(text)
  /\ balanced1' = text'
  /\ pc' = "balanced"
  /\ UNCHANGED <<input0, detVars, decVars, infVars, nrmVars>>

\* text = balance_parentheses(text), called again on its own output
Rebalance ==
  /\ pc = "balanced"
  /\ left_stack' = ScanStacks(text, Len(text)).left
  /\ right_stack' = ScanStacks(text, Len(text)).right
  /\ text' = balance_parentheses(text)
  /\ pc' = "rebalanced"
  /\ UNCHANGED <<input0, balanced1, detVars, decVars, infVars, nrmVars>>

NextBalance == Balance \/ Rebalance

SpecBalance == InitBalance /\ [][NextBalance]_vars

\* tokens the detokenizer is exercised with
DetTokens == { <<"a">>, <<".">>, <<"%">>, <<"!", "?">>, LPAR, RPAR, RGUIL }

InitDetok ==
  /\ pc = "det_loop"
  /\ text \in SeqsUpTo(DetTokens, 0, MaxLen)
  /\ left_stack = <<>> /\ right_stack = <<>>
  /\ input0 = <<>> /\ balanced1 = <<>>
  /\ DetIdle /\ DecIdle /\ InfIdle /\ NrmIdle

\* one iteration of `for token in text`
DetokStep ==
  /\ pc = "det_loop"
  /\ idx < Len(text)
  /\ LET st == DetokToken([pieces |-> detokenized_text, sep |-> sep],
                          text[idx + 1])
     IN  /\ detokenized_text' = st.pieces
         /\ sep' = st.sep
  /\ idx' = idx + 1
  /\ UNCHANGED <<pc, detok_out, balVars, decVars, infVars, nrmVars>>

\* return ''.join(detokenized_text)
DetokJoin ==
  /\ pc = "det_loop"
  /\ idx = Len(text)
  /\ detok_out' = JoinStr(detokenized_text)
  /\ pc' = "detokenized"
  /\ UNCHANGED <<idx, detokenized_text, sep, balVars, decVars, infVars, nrmVars>>

NextDetok == DetokStep \/ DetokJoin

SpecDetok == InitDetok /\ [][NextDetok]_vars

\* the sequences of n distinct identifiers taken in the order of ids
OrderedPicks(ids, n) ==
  { f \in [1..n -> 1..Len(ids)] : \A a, b \in 1..n : a < b => f[a] < f[b] }

\* the labels over a list of identifiers: "O", or up to MaxCats of them joined
LabelsOver(ids) ==
  {NoAspect} \cup
  UNION { { JoinBar([k \in 1..n |-> ids[f[k]]]) : f \in OrderedPicks(ids, n) } :
          n \in 1..MaxCats }

\* the token texts of the labelled sequences: the first n tokens of a sentence
\* (the grouping never looks at the token text)
Sentences == { <<<<"a">>, LPAR, <<"b">>, <<",">>, RPAR, <<"c">>, QUOTE>> }

InitDecodeWith(labels) ==
  /\ pc = "dec_loop"
  /\ \E n \in 0..MaxTokens : \E sent \in Sentences : \E lab \in [1..n -> labels] :
       result = [k \in 1..n |-> <<sent[k], lab[k]>>]
  /\ i = 0 /\ extracted_aspects = <<>> /\ aspect_order = <<>>
  /\ mentions = <<>>
  /\ BalIdle /\ DetIdle /\ InfIdle /\ NrmIdle

\* the predictor labels every token with "O" or categories of ASPECTS_LIST
InitDecode == InitDecodeWith(LabelsOver(ASPECTS_LIST))

\* one iteration of the loop over result; an IndexError ends the call
DecodeStep ==
  /\ pc = "dec_loop"
  /\ i < Len(result)
  /\ LET st == DecodeToken([ea |-> extracted_aspects, order |-> aspect_order,
                            err |-> FALSE], result, i + 1)
     IN  /\ extracted_aspects' = st.ea
         /\ aspect_order' = st.order
         /\ pc' = IF st.err THEN "dec_error" ELSE "dec_loop"
  /\ i' = i + 1
  /\ UNCHANGED <<result, mentions, balVars, detVars, infVars, nrmVars>>

\* the returned dict: every mention processed
DecodeReturn ==
  /\ pc = "dec_loop"
  /\ i = Len(result)
  /\ mentions' = ProcessAll(result, extracted_aspects)
  /\ pc' = "decoded"
  /\ UNCHANGED <<result, i, extracted_aspects, aspect_order, balVars, detVars,
                 infVars, nrmVars>>

NextDecode == DecodeStep \/ DecodeReturn

SpecDecode == InitDecode /\ [][NextDecode]_vars

\* identifiers outside ASPECTS_LIST, one of them a part of a known one
Met == <<"M", "e", "t">>
Extra == <<"X">>
OpaqueIds == <<Method, Met, Extra>>

\* the predictor emits identifiers the core does not know
InitDecodeOpaque == InitDecodeWith(LabelsOver(OpaqueIds))

SpecDecodeOpaque == InitDecodeOpaque /\ [][NextDecode]_vars

\* candidate parses the analyzer may return
ParseChoices == [POS : {NOUN, ADJF, PRTF, VERB, NoPOS}, ok : BOOLEAN]

InitInflect ==
  /\ pc = "inf_start"
  /\ parses \in SeqsUpTo(ParseChoices, 1, MaxParses)
  /\ pos \in {<<>>, <<NOUN>>, <<ADJ, PRT>>}
  /\ grammemes \in {{"nomn"}, {"gent"}, {"nomn", "femn"}}
  /\ parse = 0 /\ inflected = <<>>
  /\ BalIdle /\ DetIdle /\ DecIdle /\ NrmIdle

\* inflect(token, pos, grammemes) for a word whose candidate parses are parses
Inflect ==
  /\ pc = "inf_start"
  /\ parse' = SelectParse(parses, pos)
  /\ inflected' = inflect(<<"w">>, parses, pos, grammemes)
  /\ pc' = "inflected"
  /\ UNCHANGED <<parses, pos, grammemes, balVars, detVars, decVars, nrmVars>>

NextInflect == Inflect

SpecInflect == InitInflect /\ [][NextInflect]_vars

\* head assignments of n tokens in which every token reaches a root
RECURSIVE Ancestor(_, _, _)
Ancestor(h, k, steps) == IF steps = 0 THEN k ELSE Ancestor(h, h[k], steps - 1)
Heads(n) ==
  { h \in [1..n -> 1..n] : \A k \in 1..n : h[Ancestor(h, k, n)] = Ancestor(h, k, n) }

\* what the parser may say about a root, and about the analyzer's candidates
RootFeatures ==
  { [pos_ |-> "NOUN", Number |-> "Plur", Gender |-> ""],
    [pos_ |-> "NOUN", Number |-> "Sing", Gender |-> "Fem"],
    [pos_ |-> "NOUN", Number |-> "", Gender |-> ""],
    [pos_ |-> "VERB", Number |-> "", Gender |-> ""] }
MorphChoices ==
  { << [POS |-> ADJF, ok |-> TRUE], [POS |-> NOUN, ok |-> TRUE] >>,
    << [POS |-> NOUN, ok |-> TRUE], [POS |-> VERB, ok |-> FALSE] >> }
DepChoices == {"nummod", "nummod:gov", "amod", "nmod"}

TokenText(k) == <<"w", ToString(k)>>

\* the parse of n tokens with heads h, relations dep, root features feat and
\* candidate parses mo
DocOf(n, h, dep, feat, mo) ==
  [k \in 1..n |->
     [text |-> TokenText(k),
      head |-> h[k],
      dep_ |-> IF h[k] = k THEN "ROOT" ELSE dep[k],
      pos_ |-> IF h[k] = k THEN feat.pos_ ELSE "X",
      Number |-> IF h[k] = k THEN feat.Number ELSE "",
      Gender |-> IF h[k] = k THEN feat.Gender ELSE "",
      morph |-> mo[k]]]

InitNormalize ==
  /\ pc = "nrm_start"
  /\ \E n \in 1..MaxSpan : \E h \in Heads(n) : \E dep \in [1..n -> DepChoices] :
       \E feat \in RootFeatures : \E mo \in [1..n -> MorphChoices] :
         doc = DocOf(n, h, dep, feat, mo)
  /\ normalized_text = <<>>
  /\ idx = 0 /\ detokenized_text = <<>> /\ sep = <<>> /\ detok_out = <<>>
  /\ BalIdle /\ DecIdle /\ InfIdle

\* root.pos_ == 'NOUN': enter the loop
NormalizeEnter ==
  /\ pc = "nrm_start"
  /\ doc[RootOf(doc)].pos_ = "NOUN"
  /\ pc' = "nrm_loop"
  /\ UNCHANGED <<doc, normalized_text, detVars, balVars, decVars, infVars>>

\* root.pos_ != 'NOUN': return tokens
NormalizeSkip ==
  /\ pc = "nrm_start"
  /\ doc[RootOf(doc)].pos_ # "NOUN"
  /\ normalized_text' = [k \in 1..Len(doc) |-> doc[k].text]
  /\ pc' = "normalized"
  /\ UNCHANGED <<doc, detVars, balVars, decVars, infVars>>

\* one iteration of `for token in doc[::]`
NormalizeStep ==
  /\ pc = "nrm_loop"
  /\ idx < Len(doc)
  /\ normalized_text' = Append(normalized_text, NormalizeToken(doc, idx + 1))
  /\ idx' = idx + 1
  /\ UNCHANGED <<pc, doc, detokenized_text, sep, detok_out, balVars, decVars,
                 infVars>>

\* return normalized_text
NormalizeReturn ==
  /\ pc = "nrm_loop"
  /\ idx = Len(doc)
  /\ pc' = "normalized"
  /\ UNCHANGED <<doc, normalized_text, detVars, balVars, decVars, infVars>>

NextNormalize ==
  NormalizeEnter \/ NormalizeSkip \/ NormalizeStep \/ NormalizeReturn

SpecNormalize == InitNormalize /\ [][NextNormalize]_vars

----------------------------------------------------------------------------
(* Properties of balance_parentheses *)

\* the positions of a set, as an increasing / decreasing sequence
RECURSIVE Ascending(_)
Ascending(S) ==
  IF S = {} THEN <<>>
  ELSE LET m == CHOOSE x \in S : \A y \in S : x <= y
       IN  <<m>> \o Ascending(S \ {m})
RECURSIVE Descending(_)
Descending(S) ==
  IF S = {} THEN <<>>
  ELSE LET m == CHOOSE x \in S : \A y \in S : x >= y
       IN  <<m>> \o Descending(S \ {m})

\* occurrences of glyph g among positions a..b of toks
CountIn(toks, g, a, b) == Cardinality({ k \in a..b : toks[k] = g })

\* positions of the right brackets that no earlier left bracket of the same
\* pair is left over for
UnmatchedClosePositions(toks) ==
  { k \in 1..Len(toks) :
      /\ InR2L(toks[k])
      /\ \A j \in 1..k :
            CountIn(toks, PAIRED_R2L(toks[k]), j, k - 1)
              <= CountIn(toks, toks[k], j, k - 1) }

\* positions of the left brackets that no later right bracket of the same pair
\* closes, and of the last symmetric quote when their number is odd
UnmatchedOpenPositions(toks) ==
  { k \in 1..Len(toks) :
      \/ /\ InL2R(toks[k])
         /\ \A m \in k + 1..Len(toks) :
               CountIn(toks, PAIRED_L2R(toks[k]), k + 1, m)
                 <= CountIn(toks, toks[k], k + 1, m)
      \/ /\ InList(toks[k], SYMM_QUOTES)
         /\ CountIn(toks, toks[k], k + 1, Len(toks)) = 0
         /\ CountIn(toks, toks[k], 1, Len(toks)) % 2 = 1 }

LeftsFor(toks) ==
  LET ps == Ascending(UnmatchedClosePositions(toks))
  IN  [k \in 1..Len(ps) |-> PAIRED_R2L(toks[ps[k]])]
RightsMostRecentFirst(toks) ==
  LET ps == Descending(UnmatchedOpenPositions(toks))
  IN  [k \in 1..Len(ps) |-> PAIRED_L2R(toks[ps[k]])]
RightsPushOrder(toks) ==
  LET ps == Ascending(UnmatchedOpenPositions(toks))
  IN  [k \in 1..Len(ps) |-> PAIRED_L2R(toks[ps[k]])]

\* C3: the output of balance_parentheses has no bracket or quote without a
\* partner: scanning it again leaves both stacks empty, each left glyph occurs
\* as often as its right glyph, and the symmetric quote occurs an even number
\* of times.
C3_Balanced ==
  pc \in {"balanced", "rebalanced"} =>
    /\ ScanStacks(text, Len(text)).left = <<>>
    /\ ScanStacks(text, Len(text)).right = <<>>
    /\ pc = "rebalanced" => left_stack = <<>> /\ right_stack = <<>>
    /\ \A b \in 1..Len(LeftBrackets) :
         Count(LeftBrackets[b], text) = Count(RightBrackets[b], text)
    /\ Count(QUOTE, text) % 2 = 0

C3_Witness ==
  /\ pc = "rebalanced"
  /\ Len(balanced1) >= Len(input0) + 3
  /\ Count(QUOTE, input0) = 1

\* C4: balance_parentheses is idempotent: balancing its own output adds no
\* token at the front or at the end.
C4_Idempotent == pc = "rebalanced" => text = balanced1

C4_Witness ==
  /\ pc = "rebalanced"
  /\ balanced1 # input0
  /\ Head(balanced1) = LSQ
  /\ balanced1[Len(balanced1)] = RPAR

\* C9 (as stated): the output is the input preceded by the left counterparts
\* of the unmatched closes and followed by the right counterparts of the
\* unmatched opens in the order in which the opens were pushed.
C9_AppendedInPushOrder ==
  pc = "balanced" =>
    text = LeftsFor(input0) \o input0 \o RightsPushOrder(input0)

\* C9 (amended): the output is the input, unchanged and in order, preceded by
\* the left counterparts of the unmatched closes (in scan order, the result of
\* prepending them one by one, most recent close first) and followed by the
\* right counterparts of the unmatched opens, most recently pushed open first.
C9_Layout ==
  pc = "balanced" =>
    text = LeftsFor(input0) \o input0 \o RightsMostRecentFirst(input0)

C9_Witness ==
  /\ pc = "balanced"
  /\ Cardinality(UnmatchedOpenPositions(input0)) >= 2
  /\ Cardinality(UnmatchedClosePositions(input0)) >= 2
  /\ RightsMostRecentFirst(input0) # RightsPushOrder(input0)

----------------------------------------------------------------------------
(* Properties of detokenize *)

\* token is one character of the unpaired-punctuation set
IsUnpairedPunct(token) ==
  Len(token) = 1 /\ \E k \in 1..Len(UNPAIRED_PUNCT) : token[1] = UNPAIRED_PUNCT[k]

\* index in detok_out of the first character of token k (the token is the
\* tail of the k-th emitted piece)
StartOf(k) == Len(JoinStr(SubSeq(detokenized_text, 1, k))) - Len(text[k]) + 1

TokenIsInOutput(k) ==
  SubSeq(detok_out, StartOf(k), StartOf(k) + Len(text[k]) - 1) = text[k]
NoSpaceBefore(k) == StartOf(k) = 1 \/ detok_out[StartOf(k) - 1] # " "
OneSpaceBefore(k) ==
  /\ StartOf(k) > 1
  /\ detok_out[StartOf(k) - 1] = " "
  /\ StartOf(k) > 2 => detok_out[StartOf(k) - 2] # " "

\* C5: the detokenized string has no space right before an unpaired
\* punctuation token or a right bracket token, and no space right after a left
\* bracket token.
C5_NoSpace ==
  pc = "detokenized" =>
    \A k \in 1..Len(text) :
      /\ TokenIsInOutput(k)
      /\ IsUnpairedPunct(text[k]) \/ InR2L(text[k]) => NoSpaceBefore(k)
      /\ k > 1 /\ InL2R(text[k - 1]) => NoSpaceBefore(k)

C5_Witness ==
  /\ pc = "detokenized"
  /\ Len(text) = 4
  /\ text[1] = <<"a">> /\ text[2] = LPAR /\ text[3] = <<"a">> /\ text[4] = RPAR
  /\ detok_out = <<"a", " ", "(", "a", ")">>

\* C8: consecutive tokens are joined with exactly one space except where the
\* following token is unpaired punctuation or a right bracket, or the
\* preceding token is a left bracket; in particular an ordinary token that
\* follows a punctuation or right bracket token is preceded by one space.
C8_OneSpaceOtherwise ==
  pc = "detokenized" =>
    \A k \in 2..Len(text) :
      IF IsUnpairedPunct(text[k]) \/ InR2L(text[k]) \/ InL2R(text[k - 1])
        THEN NoSpaceBefore(k)
        ELSE OneSpaceBefore(k)

----------------------------------------------------------------------------
(* Properties of extract_aspects *)

\* the label set a label string decodes to: its '|'-separated identifiers,
\* and the empty set when the sentinel "O" is among them
LabelSet(label) ==
  IF \E k \in 1..Len(Split(label)) : Split(label)[k] = NoAspect THEN {}
  ELSE { Split(label)[k] : k \in 1..Len(Split(label)) }

\* label set of the token at position k; empty before the first token
LabelSetAt(k) == IF k = 0 THEN {} ELSE LabelSet(result[k][2])

AllCategories == UNION { LabelSetAt(k) : k \in 1..Len(result) }

SpansOf(ea, c) == IF c \in DOMAIN ea THEN ea[c] ELSE <<>>

\* C1: the token at position i+1 extends the most recently started span of c
\* iff c is in its label set and in the label set of the token before it; if c
\* is in its label set only, a new span of c starts with it; otherwise the spans
\* of c are left alone.
C1_Continuation ==
  [][(pc = "dec_loop" /\ i' = i + 1) =>
       \A c \in AllCategories :
         LET old == SpansOf(extracted_aspects, c)
             new == SpansOf(extracted_aspects', c)
         IN  /\ pc' = "dec_loop"
             /\ IF c \in LabelSetAt(i + 1) /\ c \in LabelSetAt(i)
                  THEN /\ old # <<>>
                       /\ new = [old EXCEPT ![Len(old)] = Append(@, i + 1)]
                  ELSE IF c \in LabelSetAt(i + 1)
                         THEN new = Append(old, <<i + 1>>)
                         ELSE new = old]_vars

C1_Witness ==
  /\ pc = "decoded"
  /\ Len(result) = 3
  /\ result[1][2] = JoinBar(<<Task, Method>>)
  /\ result[2][2] = Method
  /\ result[3][2] = JoinBar(<<Task, Method>>)
  /\ extracted_aspects[Method] = <<<<1, 2, 3>>>>
  /\ extracted_aspects[Task] = <<<<1>>, <<3>>>>

\* C2: every token whose label set includes c is in exactly one span of c;
\* the spans of c are non-empty contiguous runs, pairwise disjoint and listed
\* in the order of their first tokens.
C2_Spans ==
  pc \in {"dec_loop", "decoded"} =>
    \A c \in AllCategories \cup DOMAIN extracted_aspects :
      LET spans == SpansOf(extracted_aspects, c)
      IN  /\ \A k \in 1..i :
               c \in LabelSetAt(k) <=>
                 Cardinality({ m \in 1..Len(spans) : InList(k, spans[m]) }) = 1
          /\ \A m \in 1..Len(spans) :
               /\ spans[m] # <<>>
               /\ \A j \in 1..Len(spans[m]) - 1 :
                    spans[m][j + 1] = spans[m][j] + 1
               /\ \A j \in 1..Len(spans[m]) : spans[m][j] \in 1..i
          /\ \A m, n \in 1..Len(spans) :
               m < n =>
                 /\ spans[m][1] < spans[n][1]
                 /\ \A a \in 1..Len(spans[m]) : ~InList(spans[m][a], spans[n])

C2_Witness ==
  /\ pc = "decoded"
  /\ Len(result) = 3
  /\ Conc \in DOMAIN extracted_aspects
  /\ extracted_aspects[Conc] = <<<<1>>, <<3>>>>
  /\ Contrib \in DOMAIN extracted_aspects
  /\ extracted_aspects[Contrib] = <<<<2, 3>>>>

\* a one-to-one renaming of the unknown identifiers to identifiers none of
\* which is part of another
RenameId(id) ==
  IF id = Method THEN Task
  ELSE IF id = Met THEN Contrib
  ELSE IF id = Extra THEN Conc
  ELSE id
RenameLabel(label) ==
  JoinBar([k \in 1..Len(Split(label)) |-> RenameId(Split(label)[k])])
Renamed(res) == [k \in 1..Len(res) |-> <<res[k][1], RenameLabel(res[k][2])>>]

\* C6: decoding succeeds for labels with unknown identifiers, and the spans of
\* a category are the spans its renamed category gets when the identifiers are
\* renamed one-to-one.
C6_OpaqueKeys ==
  /\ pc # "dec_error"
  /\ pc = "decoded" =>
       LET ren == DecodeLoop(Renamed(result), Len(result))
       IN  /\ ~ren.err
           /\ DOMAIN ren.ea = { RenameId(c) : c \in DOMAIN extracted_aspects }
           /\ \A c \in DOMAIN extracted_aspects :
                extracted_aspects[c] = ren.ea[RenameId(c)]

----------------------------------------------------------------------------
(* Properties of inflect and normalize *)

\* C7: the parse that is inflected is the first candidate whose part of speech
\* starts with a requested prefix, and the first candidate when none matches
\* (also when no prefix is requested).
C7_FirstParseFallback ==
  pc = "inflected" =>
    /\ \A k \in 1..Len(parses) :
         (PosMatches(parses[k], pos)
            /\ \A j \in 1..k - 1 : ~PosMatches(parses[j], pos)) => parse = k
    /\ (\A k \in 1..Len(parses) : ~PosMatches(parses[k], pos)) => parse = 1

\* the role of the token at position k, by the precedence of the rules
Role(d, k) ==
  IF d[k].dep_ = "nummod" THEN "NumeralModifier"
  ELSE IF \E c \in 1..Len(d) :
            c # k /\ d[c].head = k /\ d[c].dep_ \in {"nummod", "nummod:gov"}
    THEN "NumeralGovernedNoun"
  ELSE IF k = RootOf(d) THEN "Root"
  ELSE IF d[k].head = RootOf(d)
            /\ d[k].dep_ \in {"appos", "acl", "amod", "det", "clf", "nummod"}
    THEN "AgreeingDependent"
  ELSE "Other"

\* number if the root is plural, else its gender (masculine when absent)
AgreementFeature(root) ==
  IF root.Number = "Plur" THEN "plur"
  ELSE IF root.Gender = "Fem" THEN "femn"
  ELSE IF root.Gender = "Neut" THEN "neut"
  ELSE "masc"

\* the grammemes the token at position k is inflected to
TargetGrammemes(d, k) ==
  CASE Role(d, k) = "NumeralModifier" -> {"nomn"}
    [] Role(d, k) = "NumeralGovernedNoun" -> {"gent"}
    [] Role(d, k) = "Root" -> {"nomn"}
    [] Role(d, k) = "AgreeingDependent" ->
         {"nomn", AgreementFeature(d[RootOf(d)])}

\* the token is a form with the target grammemes of one of its candidates, or
\* itself when a candidate has no such form
InflectedTo(out, token, grams) ==
  \/ \E j \in 1..Len(token.morph) : token.morph[j].ok /\ out = Word(j, grams)
  \/ (\E j \in 1..Len(token.morph) : ~token.morph[j].ok) /\ out = token.text

====
